---- MODULE Spec2Model ----
(***************************************************************************)
(* AgriManagement backend: the order engine (create_transaction), the      *)
(* credit ledger (create_credit_account, update_credit_account,            *)
(* create_credit_repayment) and the catalogs (create_produce,              *)
(* update_produce, update_product) over one shared relational store.       *)
(*                                                                         *)
(* Money is counted in mills (1/1000 of a currency unit), so that a value  *)
(* with more than two decimals and its storage in a Numeric(10, 2) column  *)
(* are different numbers.  Quantities are whole units.                     *)
(*                                                                         *)
(* Every request runs in its own SQLAlchemy session: a query reads the     *)
(* committed row the first time the session sees it and returns the        *)
(* session's own object afterwards; attribute writes and db.add stay in    *)
(* the session until db.commit, which writes the changed columns with the  *)
(* values the session holds.  A request that raises never reaches          *)
(* db.commit.                                                              *)
(*                                                                         *)
(* A handler is cut into steps at its reads of and writes to the store;    *)
(* what it computes between two of them belongs to the step before.  The   *)
(* loop of create_transaction reads the lines of its request one at a      *)
(* time, in order, and once each, so a line is drawn when the loop reaches *)
(* it, and the loop ends when the request has no further line.             *)
(***************************************************************************)
EXTENDS Integers, Sequences, FiniteSets, TLC

VARIABLES products, produce, accounts, repayments, transactions, calls

vars == <<products, produce, accounts, repayments, transactions, calls>>

db == <<products, produce, accounts, repayments, transactions>>

(***************************** bounds **************************************)
\* committed Transaction rows the model lets the table grow to
MaxTx == 2
\* lines of one order
MaxLines == 2
\* Produce rows the model lets the table grow to
MaxProduce == 3
\* CreditRepayment rows the model lets the table grow to
MaxRepayments == 2

(***************************** users ***************************************)
\* The users table is owned by the identity provider and does not change here.
Users == {1, 2, 3}

Role(u) == CASE u = 1 -> "admin" [] u = 2 -> "salesperson" [] OTHER -> "farmer"

\* the two worker threads that serve requests side by side
Calls == {1, 2}

NoId == 0

(***************************** inputs **************************************)
ProductIds == {1}

\* product_id / produce_id of a request line: absent, a row, or no row (2)
LineRefs == {NoId, 1, 2}

\* produce_id of a request: absent, a lot on sale, a withdrawn lot, no row (3)
ProduceRefs == {NoId, 1, 2, 3}

LineQuantities == {4, 7}

\* quantity of a request line when nothing is assumed of it but its type
AnyQuantities == {-3, 0, 4, 11}

\* unit_price of a request line: 0 (falsy), or a positive override of 0.004
LinePrices == {0, 4}

\* unit_price of a request line when nothing is assumed of it but its type:
\* a negative price, 0 (falsy), or a positive override of 1.50
AnyPrices == {-1000, 0, 1500}

TransactionTypes == {"product_purchase", "produce_sale", "refund"}

PaymentMethods == {"cash", "credit"}

\* every value of the payment_method column
RequestMethods == {"cash", "credit", "mobile_money"}

\* TransactionCreate.amount, as the client sends it: 1.00 or 8.00
ClientAmounts == {1000, 8000}

\* TransactionItemCreate: a line naming a product (1 and 2 exist, 3 does not),
\* a line naming a lot, a line naming neither; 4 units at the catalog price
RequestLines ==
    {[product_id |-> p, produce_id |-> NoId, quantity |-> 4, unit_price |-> 0] :
        p \in {NoId, 1, 2, 3}}
    \cup {[product_id |-> NoId, produce_id |-> 1, quantity |-> 4, unit_price |-> 0]}

\* lines naming a product, a lot, both or neither
ReferenceLines ==
    {[product_id |-> p, produce_id |-> r, quantity |-> 4, unit_price |-> 0] :
        p \in {NoId, 1}, r \in {NoId, 1}}

\* TransactionCreate.items: the lists of at most MaxLines of the lines given
ItemLists(lines) == UNION {[1..n -> lines] : n \in 0..MaxLines}


(***************************** arithmetic **********************************)
\* n / d rounded to the nearest integer, halves away from zero
RoundDiv(n, d) == IF n >= 0 THEN (2 * n + d) \div (2 * d)
                            ELSE 0 - ((2 * (0 - n) + d) \div (2 * d))

\* a value in mills as a Numeric(10, 2) column keeps it: whole cents
Numeric2(m) == 10 * RoundDiv(m, 10)

RECURSIVE SumItems(_)
\* sum over rows of quantity * unit_price
SumItems(items) ==
    IF items = <<>> THEN 0
    ELSE Head(items).quantity * Head(items).unit_price + SumItems(Tail(items))

(***************************** the session *********************************)
\* no request line
NoLine == [ref |-> NoId, quantity |-> 0]

IdleCall ==
    [op |-> "none", pc |-> "idle", user |-> 0, ttype |-> "", method |-> "",
     at |-> "", resolved |-> 0, items |-> <<>>, total |-> 0,
     sstock |-> <<>>, sproduce |-> <<>>, acct |-> 0, sbal |-> 0, target |-> 0,
     line |-> NoLine, todo |-> <<>>, claimed |-> 0, result |-> ""]

\* the request has raised (or returned) in the given phase: the session is
\* closed, its pending changes are gone, and the caller holds the outcome
Finished(call, phase, outcome) ==
    [IdleCall EXCEPT !.op = call.op, !.pc = "done", !.user = call.user,
                     !.ttype = call.ttype, !.method = call.method,
                     !.at = phase, !.resolved = call.resolved,
                     !.total = IF phase = "resolve" THEN 0 ELSE call.total,
                     !.acct = call.acct, !.target = call.target,
                     !.line = IF phase = "resolve" THEN call.line ELSE NoLine,
                     !.todo = IF phase = "resolve" THEN call.todo ELSE << >>,
                     !.claimed = call.claimed,
                     !.result = outcome]

\* db.add as it would be if the session wrote each object through at once
DbAddAutocommit(table, id, row) == [table EXCEPT ![id] = row]

\* db.add(obj): the object is pending in the session; the committed table is
\* what it was
DbAdd(table, id, row) == table

\* the stock as it would be seen if every query read the committed row afresh
StockSeenCommitted(call, p) == products[p].quantity_in_stock

\* product.quantity_in_stock as this session sees it: the row it has loaded
\* and decremented, else the committed row
StockSeen(call, p) ==
    IF p \in DOMAIN call.sstock THEN call.sstock[p] ELSE products[p].quantity_in_stock

\* the Produce row as this session sees it
ProduceSeen(call, r) ==
    IF r \in DOMAIN call.sproduce THEN call.sproduce[r] ELSE produce[r]

InFlight == Cardinality({c \in Calls : calls[c].op = "create_transaction"
                                      /\ calls[c].pc \notin {"idle", "done"}})

(***************************** create_transaction **************************)
\* the type/role check as it would be if it let farmers record produce sales
AuthorizeTypeLoose(ttype, role) ==
    IF ttype = "product_purchase"
    THEN IF role \notin {"admin", "salesperson"} THEN "Forbidden" ELSE "ok"
    ELSE IF ttype = "produce_sale"
         THEN IF role \notin {"salesperson", "farmer"} THEN "Forbidden" ELSE "ok"
         ELSE "InvalidTransactionType"

\* transaction type against the caller's role: "ok" or the error raised
AuthorizeType(ttype, role) ==
    IF ttype = "product_purchase"
    THEN IF role \notin {"admin", "salesperson"} THEN "Forbidden" ELSE "ok"
    ELSE IF ttype = "produce_sale"
         THEN IF role # "salesperson" THEN "Forbidden" ELSE "ok"
         ELSE "InvalidTransactionType"

\* item.unit_price if it is truthy (not 0.0), else the catalog price
UnitPrice(given, catalog) == IF given # 0 THEN given ELSE catalog

\* the checks of a product_purchase line as they would be without the one on stock
PurchaseLineCheckNoStock(call, pid, q) ==
    IF pid = NoId THEN "MissingReference"
    ELSE IF pid \notin DOMAIN products THEN "NotFound"
    ELSE "ok"

\* the first check a product_purchase line fails, or "ok"
PurchaseLineCheck(call, pid, q) ==
    IF pid = NoId THEN "MissingReference"
    ELSE IF pid \notin DOMAIN products THEN "NotFound"
    ELSE IF StockSeen(call, pid) < q THEN "InsufficientStock"
    ELSE "ok"

\* the first check a produce_sale line fails, or "ok"
SaleLineCheck(call, rid, q) ==
    IF rid = NoId THEN "MissingReference"
    ELSE IF rid \notin DOMAIN produce THEN "NotFound"
    ELSE IF ~ProduceSeen(call, rid).is_available THEN "Unavailable"
    ELSE IF ProduceSeen(call, rid).quantity < q THEN "InsufficientStock"
    ELSE "ok"

\* the Produce row after quantity -= q, withdrawn and clamped at zero
ProduceAfterSale(row, q) ==
    IF row.quantity - q <= 0
    THEN [row EXCEPT !.quantity = 0, !.is_available = FALSE]
    ELSE [row EXCEPT !.quantity = @ - q]

\* produce.quantity is a Decimal (Numeric column) and item.quantity a float
\* (pydantic): Decimal -= float raises TypeError
DecimalMinusFloatRaises == TRUE

\* the call after its loop has taken one more line
AfterLine(call, line) ==
    [call EXCEPT !.resolved = @ + 1,
                 !.items = Append(@, line),
                 !.total = @ + line.quantity * line.unit_price,
                 !.todo = IF @ = << >> THEN @ ELSE Tail(@)]

\* the loop as it would be if it ran over the request's lines from the last
CurrentLineFromEnd(call) == call.todo[Len(call.todo)]

\* `for item in transaction.items`: the line the loop is at
CurrentLine(call) == Head(call.todo)

\* the loop's end as it would be if the payment check did not wait for it
LoopDoneAnytime(call) == TRUE

\* the loop over transaction.items has run out of lines
LoopDone(call) == call.todo = << >>

\* the item of a purchase line as it would be if it copied both ids of the line
PurchaseItemWithBothIds(line, price) ==
    [product_id |-> line.product_id, produce_id |-> line.produce_id,
     quantity |-> line.quantity, unit_price |-> price, given |-> line.unit_price]

\* items_to_create.append({"product_id": ..., "quantity": ..., "unit_price": ...})
PurchaseItem(line, price) ==
    [product_id |-> line.product_id, produce_id |-> NoId,
     quantity |-> line.quantity, unit_price |-> price, given |-> line.unit_price]

\* items_to_create.append({"produce_id": ..., "quantity": ..., "unit_price": ...})
SaleItem(line, price) ==
    [product_id |-> NoId, produce_id |-> line.produce_id,
     quantity |-> line.quantity, unit_price |-> price, given |-> line.unit_price]

\* the request arrives, with a payment method, a client-supplied amount and
\* items drawn from the given sets; its type is checked against the caller's role
BeginTransactionWith(c, methods, amounts, requests) ==
    /\ calls[c].pc = "idle"
    /\ Len(transactions) + InFlight < MaxTx
    /\ \E u \in Users, t \in TransactionTypes, m \in methods, a \in amounts,
          lines \in requests :
         LET req == [IdleCall EXCEPT !.op = "create_transaction", !.user = u,
                                     !.ttype = t, !.method = m,
                                     !.claimed = a, !.todo = lines]
             verdict == AuthorizeType(t, Role(u))
         IN calls' = [calls EXCEPT ![c] =
                IF verdict # "ok" THEN Finished(req, "authorize", verdict)
                ELSE [req EXCEPT !.pc = "resolving"]]
    /\ UNCHANGED db

\* the request arrives; its lines are drawn as the loop reaches them
BeginTransaction(c) == BeginTransactionWith(c, PaymentMethods, {0}, {<< >>})

\* one iteration of the loop over transaction.items, product_purchase branch,
\* for the request line given
ResolvePurchaseLineOf(c, item) ==
    LET call == calls[c]
        pid == item.product_id
        q == item.quantity
        verdict == PurchaseLineCheck(call, pid, q)
        asked == [ref |-> pid, quantity |-> q]
    IN
    /\ call.pc = "resolving"
    /\ call.ttype = "product_purchase"
    /\ IF verdict # "ok"
       THEN /\ calls' = [calls EXCEPT ![c] =
                   Finished([call EXCEPT !.line = asked], "resolve", verdict)]
            /\ UNCHANGED products
       ELSE LET price == UnitPrice(item.unit_price, products[pid].price)
                line == PurchaseItem(item, price)
                left == StockSeen(call, pid) - q
            IN /\ calls' = [calls EXCEPT ![c] =
                      [AfterLine(call, line) EXCEPT !.sstock = (pid :> left) @@ @]]
               /\ products' = DbAdd(products, pid,
                                    [products[pid] EXCEPT !.quantity_in_stock = left])
    /\ UNCHANGED <<produce, accounts, repayments, transactions>>

\* with the request's next line drawn from the given quantities and prices
ResolvePurchaseLineFrom(c, quantities, prices) ==
    /\ calls[c].resolved < MaxLines
    /\ \E pid \in LineRefs, q \in quantities, up \in prices :
         ResolvePurchaseLineOf(c, [product_id |-> pid, produce_id |-> NoId,
                                   quantity |-> q, unit_price |-> up])

ResolvePurchaseLine(c) == ResolvePurchaseLineFrom(c, LineQuantities, LinePrices)

\* one iteration of the loop over transaction.items, produce_sale branch,
\* for the request line given
ResolveSaleLineOf(c, item) ==
    LET call == calls[c]
        rid == item.produce_id
        q == item.quantity
        verdict == SaleLineCheck(call, rid, q)
        asked == [ref |-> rid, quantity |-> q]
    IN
    /\ call.pc = "resolving"
    /\ call.ttype = "produce_sale"
    /\ IF verdict # "ok"
       THEN calls' = [calls EXCEPT ![c] =
                Finished([call EXCEPT !.line = asked], "resolve", verdict)]
       ELSE LET price == UnitPrice(item.unit_price, produce[rid].price_per_unit)
                line == SaleItem(item, price)
                row == ProduceAfterSale(ProduceSeen(call, rid), q)
            IN IF DecimalMinusFloatRaises
               THEN calls' = [calls EXCEPT ![c] =
                        Finished([call EXCEPT !.resolved = @ + 1, !.line = asked],
                                 "resolve", "TypeError")]
               ELSE calls' = [calls EXCEPT ![c] =
                        [AfterLine(call, line) EXCEPT !.sproduce = (rid :> row) @@ @]]
    /\ UNCHANGED db

\* the loop takes the next line of a request that came with its lines
ResolveNextPurchaseLine(c) ==
    /\ ~LoopDone(calls[c])
    /\ ResolvePurchaseLineOf(c, CurrentLine(calls[c]))

\* with the request's next line drawn from the given quantities and prices
ResolveSaleLineFrom(c, quantities, prices) ==
    /\ calls[c].resolved < MaxLines
    /\ \E rid \in ProduceRefs, q \in quantities, up \in prices :
         ResolveSaleLineOf(c, [product_id |-> NoId, produce_id |-> rid,
                               quantity |-> q, unit_price |-> up])

ResolveSaleLine(c) == ResolveSaleLineFrom(c, LineQuantities, LinePrices)

\* the loop takes the next line of a request that came with its lines
ResolveNextSaleLine(c) ==
    /\ ~LoopDone(calls[c])
    /\ ResolveSaleLineOf(c, CurrentLine(calls[c]))

\* the loop has run out of lines and the payment method is credit
AuthorizePayment(c) ==
    LET call == calls[c]
        mine == {a \in DOMAIN accounts : accounts[a].farmer_id = call.user}
    IN
    /\ call.pc = "resolving"
    /\ LoopDone(call)
    /\ call.method = "credit"
    /\ calls' = [calls EXCEPT ![c] =
          IF Role(call.user) # "farmer" THEN Finished(call, "payment", "Forbidden")
          ELSE IF mine = {} THEN Finished(call, "payment", "NoCreditAccount")
          ELSE LET a == CHOOSE x \in mine : \A y \in mine : x <= y
                   available == accounts[a].credit_limit - accounts[a].current_balance
               IN IF call.total > available
                  THEN Finished(call, "payment", "CreditLimitExceeded")
                  ELSE [call EXCEPT !.pc = "commit", !.acct = a,
                                    !.sbal = accounts[a].current_balance + call.total]]
    /\ UNCHANGED db

\* the rate as a percentage: Decimal('0.05')
COMMISSION_RATE == 5

\* the Commission rows as they would be if every transaction type earned one
CommissionRowsForAll(call) ==
    LET admins == {u \in Users : Role(u) = "admin"} IN
    IF admins # {}
    THEN << [amount |-> 10 * RoundDiv(call.total * COMMISSION_RATE, 1000),
             commission_rate |-> COMMISSION_RATE,
             beneficiary_id |-> CHOOSE u \in admins : \A v \in admins : u <= v] >>
    ELSE << >>

\* the Commission rows of a new transaction: one for a produce sale when an
\* admin exists, else none
CommissionRows(call) ==
    LET admins == {u \in Users : Role(u) = "admin"} IN
    IF call.ttype = "produce_sale" /\ admins # {}
    THEN << [amount |-> 10 * RoundDiv(call.total * COMMISSION_RATE, 1000),
             commission_rate |-> COMMISSION_RATE,
             beneficiary_id |-> CHOOSE u \in admins : \A v \in admins : u <= v] >>
    ELSE << >>

\* the Transaction row as it would be if amount were taken from the request
TransactionRowClientAmount(call) ==
    [id |-> Len(transactions) + 1,
     transaction_type |-> call.ttype,
     user_id |-> call.user,
     amount |-> Numeric2(call.claimed),
     payment_method |-> call.method,
     items |-> [i \in 1..Len(call.items) |->
                  [product_id |-> call.items[i].product_id,
                   produce_id |-> call.items[i].produce_id,
                   quantity |-> call.items[i].quantity,
                   unit_price |-> Numeric2(call.items[i].unit_price)]],
     commission |-> CommissionRows(call)]

\* the Transaction row with its TransactionItem and Commission rows
TransactionRow(call) ==
    [id |-> Len(transactions) + 1,
     transaction_type |-> call.ttype,
     user_id |-> call.user,
     amount |-> Numeric2(call.total),
     payment_method |-> call.method,
     items |-> [i \in 1..Len(call.items) |->
                  [product_id |-> call.items[i].product_id,
                   produce_id |-> call.items[i].produce_id,
                   quantity |-> call.items[i].quantity,
                   unit_price |-> Numeric2(call.items[i].unit_price)]],
     commission |-> CommissionRows(call)]

\* db.add as it would be if the new Transaction took the place of the last row
AddTransactionOverLast(rows, row) ==
    IF rows = << >> THEN << row >> ELSE [rows EXCEPT ![Len(rows)] = row]

\* db.add(db_transaction) with its items and commission, as committed: a new
\* row, the rows there were untouched
AddTransaction(rows, row) == Append(rows, row)

\* the products table as it would be if the commit wrote back every row of
\* the table, the rows the session never loaded with no stock
ProductsAfterCommitEveryRow(call) ==
    [p \in DOMAIN products |->
        [products[p] EXCEPT !.quantity_in_stock =
            IF p \in DOMAIN call.sstock THEN call.sstock[p] ELSE 0]]

\* the products table after the commit: the UPDATEs are those of the rows the
\* session loaded and decremented (db.add(product)), no other row is written
ProductsAfterCommit(call) ==
    [p \in DOMAIN products |->
        IF p \in DOMAIN call.sstock
        THEN [products[p] EXCEPT !.quantity_in_stock = call.sstock[p]]
        ELSE products[p]]

\* db.flush() as it would be if the INSERT it sends were visible to the other
\* sessions at once
DbFlushVisible(rows, row) == Append(rows, row)

\* db.flush(): the INSERT of the Transaction header goes to the database inside
\* the session's open transaction; the table the other sessions read is as it was
DbFlush(rows, row) == rows

\* the Transaction header as flushed: no item and no commission yet
TransactionHeader(call) ==
    [id |-> Len(transactions) + 1,
     transaction_type |-> call.ttype,
     user_id |-> call.user,
     amount |-> Numeric2(call.total),
     payment_method |-> call.method,
     items |-> << >>,
     commission |-> << >>]

\* db.add(db_transaction); db.flush(), as a step of its own: the header has
\* its id, the items and the commission are still to be added
FlushTransaction(c) ==
    LET call == calls[c] IN
    /\ \/ call.pc = "commit"
       \/ call.pc = "resolving" /\ LoopDone(call) /\ call.method # "credit"
    /\ transactions' = DbFlush(transactions, TransactionHeader(call))
    /\ calls' = [calls EXCEPT ![c].pc = "flushed"]
    /\ UNCHANGED <<products, produce, accounts, repayments>>

\* the loop has run out of lines and the payment check is passed (or the
\* method is not credit): flush and commit, every pending change of the session reaches the tables
CommitTransaction(c) ==
    LET call == calls[c] IN
    /\ \/ call.pc = "commit"
       \/ call.pc = "flushed"
       \/ call.pc = "resolving" /\ LoopDone(call) /\ call.method # "credit"
    /\ products' = ProductsAfterCommit(call)
    /\ produce' = [r \in DOMAIN produce |->
          IF r \in DOMAIN call.sproduce
          THEN [produce[r] EXCEPT !.quantity = call.sproduce[r].quantity,
                                  !.is_available = call.sproduce[r].is_available]
          ELSE produce[r]]
    /\ accounts' = IF call.acct = 0 THEN accounts
                   ELSE [accounts EXCEPT ![call.acct].current_balance = call.sbal]
    /\ transactions' = AddTransaction(transactions, TransactionRow(call))
    /\ calls' = [calls EXCEPT ![c] = Finished(call, "commit", "committed")]
    /\ UNCHANGED repayments

\* the items and the commission are added to the flushed header; db.commit()
CommitFlushed(c) ==
    /\ calls[c].pc = "flushed"
    /\ CommitTransaction(c)

\* the response has gone out; the worker takes the next request
Respond(c) ==
    /\ calls[c].pc = "done"
    /\ calls' = [calls EXCEPT ![c] = IdleCall]
    /\ UNCHANGED db

(***************************** credit ledger *******************************)
\* the names as they would be if the schemas were imported under other names
CreditNamesAreModels == FALSE

\* credits.py imports CreditAccount and CreditRepayment from app.models.credit
\* and then again from app.schemas.credit: in that module both names are the
\* pydantic schemas, and db.query(CreditAccount) raises before it reads a row
CreditNamesAreSchemas == TRUE

\* amount of a repayment: 50.00, nothing, or a negative amount
RepayAmounts == {-50000, 0, 50000}

\* credit_account_id of a request: a row, or no row (2)
AccountRefs == {1, 2}

\* the checks of a repayment as they would be with none on the amount
RepaymentCheckUnguarded(role, aid, amount) ==
    IF role # "salesperson" THEN "Forbidden"
    ELSE IF aid \notin DOMAIN accounts THEN "NotFound"
    ELSE "ok"

\* the checks of a repayment in the order the code makes them: "ok" or the error
RepaymentCheck(role, aid, amount) ==
    IF role # "salesperson" THEN "Forbidden"
    ELSE IF CreditNamesAreSchemas THEN "ArgumentError"
    ELSE IF aid \notin DOMAIN accounts THEN "NotFound"
    ELSE IF amount <= 0 THEN "InvalidAmount"
    ELSE IF amount > accounts[aid].current_balance THEN "ExceedsBalance"
    ELSE "ok"

\* the repayment calls that have read their account and not yet committed
Repaying == {c \in Calls : calls[c].pc = "repaying"}

\* POST /credits/repayments, a step of the handler: the first reads the
\* account and checks the amount against the balance read; the second commits
\* the CreditRepayment row and the balance the session computed from that read
CreateCreditRepayment(c) ==
    /\ IF calls[c].pc = "repaying"
       THEN LET call == calls[c] IN
            /\ repayments' = Append(repayments,
                   [credit_account_id |-> call.acct, amount |-> Numeric2(call.total),
                    recorded_by |-> call.user])
            /\ accounts' = [accounts EXCEPT ![call.acct].current_balance = call.sbal]
            /\ calls' = [calls EXCEPT ![c] = Finished(call, "commit", "committed")]
       ELSE /\ calls[c].pc = "idle"
            /\ Len(repayments) + Cardinality(Repaying) < MaxRepayments
            /\ \E u \in Users, aid \in AccountRefs, amount \in RepayAmounts :
                 LET req == [IdleCall EXCEPT !.op = "create_credit_repayment",
                                             !.user = u, !.acct = aid,
                                             !.total = amount]
                     verdict == RepaymentCheck(Role(u), aid, amount)
                 IN calls' = [calls EXCEPT ![c] =
                        IF verdict # "ok" THEN Finished(req, "authorize", verdict)
                        ELSE [req EXCEPT !.pc = "repaying",
                                         !.sbal = Numeric2(accounts[aid].current_balance
                                                           - amount)]]
            /\ UNCHANGED <<accounts, repayments>>
    /\ UNCHANGED <<products, produce, transactions>>

\* farmer_id of a CreditAccountCreate: the admin, the salesperson, the farmer
FarmerRefs == Users

\* credit_limit / current_balance of a CreditAccountCreate or CreditAccountUpdate
CreditAmounts == {0, 150000}

\* the checks of create_credit_account in the order the code makes them
AccountCreateCheck(role, farmer) ==
    IF role # "admin" THEN "Forbidden"
    ELSE IF Role(farmer) # "farmer" THEN "NotAFarmer"
    ELSE IF CreditNamesAreSchemas THEN "ArgumentError"
    ELSE IF \E a \in DOMAIN accounts : accounts[a].farmer_id = farmer
         THEN "DuplicateAccount"
    ELSE "ok"

\* POST /credits/accounts
CreateCreditAccount(c) ==
    /\ calls[c].pc = "idle"
    /\ \E u \in Users, farmer \in FarmerRefs, limit \in CreditAmounts,
          balance \in CreditAmounts :
         LET req == [IdleCall EXCEPT !.op = "create_credit_account", !.user = u,
                                     !.target = farmer]
             verdict == AccountCreateCheck(Role(u), farmer)
         IN IF verdict # "ok"
            THEN /\ calls' = [calls EXCEPT ![c] = Finished(req, "authorize", verdict)]
                 /\ UNCHANGED accounts
            ELSE /\ accounts' = Append(accounts,
                       [farmer_id |-> farmer, credit_limit |-> limit,
                        current_balance |-> balance])
                 /\ calls' = [calls EXCEPT ![c] = Finished(req, "commit", "committed")]
    /\ UNCHANGED <<products, produce, repayments, transactions>>

\* the fields a CreditAccountUpdate carries (exclude_unset)
AccountUpdateFields == SUBSET {"credit_limit", "current_balance"}

\* the checks of update_credit_account in the order the code makes them
AccountUpdateCheck(role, aid) ==
    IF role # "admin" THEN "Forbidden"
    ELSE IF CreditNamesAreSchemas THEN "ArgumentError"
    ELSE IF aid \notin DOMAIN accounts THEN "NotFound"
    ELSE "ok"

\* PUT /credits/accounts/{account_id}: an admin sets the fields the request carries
UpdateCreditAccount(c) ==
    /\ calls[c].pc = "idle"
    /\ \E u \in Users, aid \in AccountRefs, fields \in AccountUpdateFields,
          limit \in CreditAmounts, balance \in CreditAmounts :
         LET req == [IdleCall EXCEPT !.op = "update_credit_account", !.user = u,
                                     !.acct = aid]
             verdict == AccountUpdateCheck(Role(u), aid)
         IN IF verdict # "ok"
            THEN /\ calls' = [calls EXCEPT ![c] = Finished(req, "authorize", verdict)]
                 /\ UNCHANGED accounts
            ELSE /\ accounts' = [accounts EXCEPT ![aid] =
                       [@ EXCEPT !.credit_limit =
                                    IF "credit_limit" \in fields THEN limit ELSE @,
                                 !.current_balance =
                                    IF "current_balance" \in fields THEN balance ELSE @]]
                 /\ calls' = [calls EXCEPT ![c] = Finished(req, "commit", "committed")]
    /\ UNCHANGED <<products, produce, repayments, transactions>>

(***************************** produce catalog *****************************)
\* produce.py imports Produce from app.models.produce and then again from
\* app.schemas.produce: in that module the name is the pydantic schema, whose
\* constructor needs id, is_available, created_at and updated_at, and which
\* db.query cannot select from
ProduceNameIsSchema == TRUE

ProduceQuantities == {0, 5}

ProducePrices == {3000}

\* the checks of create_produce in the order the code makes them
ProduceCreateCheck(role) ==
    IF role # "farmer" THEN "Forbidden"
    ELSE IF ProduceNameIsSchema THEN "ValidationError"
    ELSE "ok"

\* POST /produce: a farmer lists a lot; is_available is not a field of
\* ProduceCreate and takes the column default
CreateProduce(c) ==
    /\ calls[c].pc = "idle"
    /\ Len(produce) < MaxProduce
    /\ \E u \in Users, q \in ProduceQuantities, price \in ProducePrices :
         LET req == [IdleCall EXCEPT !.op = "create_produce", !.user = u]
             verdict == ProduceCreateCheck(Role(u))
         IN IF verdict # "ok"
            THEN /\ calls' = [calls EXCEPT ![c] = Finished(req, "authorize", verdict)]
                 /\ UNCHANGED produce
            ELSE /\ produce' = Append(produce,
                       [farmer_id |-> u, quantity |-> q, price_per_unit |-> price,
                        is_available |-> TRUE])
                 /\ calls' = [calls EXCEPT ![c] = Finished(req, "commit", "committed")]
    /\ UNCHANGED <<products, accounts, repayments, transactions>>

\* the fields of a ProduceUpdate that touch the lot's quantity or availability
ProduceUpdateFields == SUBSET {"quantity", "is_available"}

\* the checks of update_produce in the order the code makes them
ProduceUpdateCheck(u, r) ==
    IF ProduceNameIsSchema THEN "ArgumentError"
    ELSE IF r \notin DOMAIN produce THEN "NotFound"
    ELSE IF Role(u) # "admin" /\ u # produce[r].farmer_id THEN "Forbidden"
    ELSE "ok"

\* PUT /produce/{produce_id}: an admin or the owner sets the fields the
\* request carries, and only those
UpdateProduce(c) ==
    /\ calls[c].pc = "idle"
    /\ \E r \in ProduceRefs \ {NoId}, u \in Users, fields \in ProduceUpdateFields,
          q \in ProduceQuantities, avail \in BOOLEAN :
         LET req == [IdleCall EXCEPT !.op = "update_produce", !.user = u,
                                     !.target = r]
             verdict == ProduceUpdateCheck(u, r)
         IN IF verdict # "ok"
            THEN /\ calls' = [calls EXCEPT ![c] = Finished(req, "authorize", verdict)]
                 /\ UNCHANGED produce
            ELSE /\ produce' = [produce EXCEPT ![r] =
                       [@ EXCEPT !.quantity = IF "quantity" \in fields THEN q ELSE @,
                                 !.is_available =
                                    IF "is_available" \in fields THEN avail ELSE @]]
                 /\ calls' = [calls EXCEPT ![c] = Finished(req, "commit", "committed")]
    /\ UNCHANGED <<products, accounts, repayments, transactions>>

(***************************** product catalog *****************************)
\* product_id of a product request: a row, or no row (2)
ProductRefs == {1, 2}

\* price of a ProductUpdate: 2.50
ProductPrices == {2500}

\* quantity_in_stock of a ProductUpdate
ProductStocks == {10}

\* the fields of a ProductUpdate that touch the product's price or stock
ProductUpdateFields == SUBSET {"price", "quantity_in_stock"}

\* the checks of update_product in the order the code makes them
ProductUpdateCheck(role, pid) ==
    IF role # "admin" THEN "Forbidden"
    ELSE IF pid \notin DOMAIN products THEN "NotFound"
    ELSE "ok"

\* PUT /products/{product_id}: an admin sets the fields the request carries
UpdateProduct(c) ==
    /\ calls[c].pc = "idle"
    /\ \E u \in Users, pid \in ProductRefs, fields \in ProductUpdateFields,
          price \in ProductPrices, stock \in ProductStocks :
         LET req == [IdleCall EXCEPT !.op = "update_product", !.user = u,
                                     !.target = pid]
             verdict == ProductUpdateCheck(Role(u), pid)
         IN IF verdict # "ok"
            THEN /\ calls' = [calls EXCEPT ![c] = Finished(req, "authorize", verdict)]
                 /\ UNCHANGED products
            ELSE /\ products' = [products EXCEPT ![pid] =
                       [@ EXCEPT !.price = IF "price" \in fields
                                           THEN Numeric2(price) ELSE @,
                                 !.quantity_in_stock =
                                    IF "quantity_in_stock" \in fields THEN stock ELSE @]]
                 /\ calls' = [calls EXCEPT ![c] = Finished(req, "commit", "committed")]
    /\ UNCHANGED <<produce, accounts, repayments, transactions>>

(***************************** specification *******************************)
\* the catalog the orders start from: one product at 2.00 with 10 in stock
InitProducts == [p \in ProductIds |-> [price |-> 2000, quantity_in_stock |-> 10]]

\* the lots the orders start from: the farmer's lot of 4 at 3.00 on sale, and
\* a lot of the farmer that is sold out and withdrawn
InitProduce ==
    << [farmer_id |-> 3, quantity |-> 4, price_per_unit |-> 3000, is_available |-> TRUE],
       [farmer_id |-> 3, quantity |-> 0, price_per_unit |-> 3000, is_available |-> FALSE] >>

\* the accounts the ledger starts from: the farmer owes 90.00 of a limit of 100.00
InitAccounts == << [farmer_id |-> 3, credit_limit |-> 100000, current_balance |-> 90000] >>

Init ==
    /\ products = InitProducts
    /\ produce = InitProduce
    /\ accounts = InitAccounts
    /\ repayments = << >>
    /\ transactions = << >>
    /\ calls = [c \in Calls |-> IdleCall]

\* a shop with a second product: 5 in stock at 1.50
InitShop ==
    /\ products = InitProducts @@ (2 :> [price |-> 1500, quantity_in_stock |-> 5])
    /\ produce = InitProduce
    /\ accounts = InitAccounts
    /\ repayments = << >>
    /\ transactions = << >>
    /\ calls = [c \in Calls |-> IdleCall]

\* one step of create_transaction in worker c
OrderStep(c) ==
    \/ BeginTransaction(c)
    \/ ResolvePurchaseLine(c)
    \/ ResolveSaleLine(c)
    \/ AuthorizePayment(c)
    \/ CommitTransaction(c)
    \/ Respond(c)

\* one request to the credit router in worker c
LedgerStep(c) ==
    \/ CreateCreditRepayment(c)
    \/ CreateCreditAccount(c)
    \/ UpdateCreditAccount(c)
    \/ Respond(c)

\* one request to the produce or the products router in worker c
CatalogStep(c) ==
    \/ CreateProduce(c)
    \/ UpdateProduce(c)
    \/ UpdateProduct(c)
    \/ Respond(c)

Next == \E c \in Calls : OrderStep(c) \/ LedgerStep(c) \/ CatalogStep(c)

\* the whole system
Spec == Init /\ [][Next]_vars

\* the order engine alone: two workers, each serving create_transaction
NextOrders == \E c \in Calls : OrderStep(c)

SpecOrders == Init /\ [][NextOrders]_vars

\* the credit ledger: orders in the first worker, credit requests in the second
NextLedger == OrderStep(1) \/ LedgerStep(2)

SpecLedger == Init /\ [][NextLedger]_vars

\* the catalogs: orders in the first worker, listings and edits in the second
NextCatalog == OrderStep(1) \/ CatalogStep(2)

SpecCatalog == Init /\ [][NextCatalog]_vars

\* one worker serving create_transaction, with nothing assumed of the
\* quantity and the unit_price of a request line but their type
NextLines ==
    \/ BeginTransaction(1)
    \/ ResolvePurchaseLineFrom(1, AnyQuantities, AnyPrices)
    \/ ResolveSaleLineFrom(1, AnyQuantities, AnyPrices)
    \/ AuthorizePayment(1)
    \/ CommitTransaction(1)
    \/ Respond(1)

SpecLines == Init /\ [][NextLines]_vars

\* orders of lines of quantity 4 at the catalog price in the first worker,
\* every other write request in the second
NextHistory ==
    \/ BeginTransaction(1)
    \/ ResolvePurchaseLineFrom(1, {4}, {0})
    \/ ResolveSaleLineFrom(1, {4}, {0})
    \/ AuthorizePayment(1)
    \/ CommitTransaction(1)
    \/ Respond(1)
    \/ CatalogStep(2)
    \/ LedgerStep(2)

SpecHistory == Init /\ [][NextHistory]_vars

\* a request arrives whole: its method, its amount and its list of lines
BeginRequest(c) ==
    BeginTransactionWith(c, RequestMethods, ClientAmounts, ItemLists(RequestLines))

\* one worker serving create_transaction for requests that arrive whole
NextRequests ==
    \/ BeginRequest(1)
    \/ ResolveNextPurchaseLine(1)
    \/ ResolveNextSaleLine(1)
    \/ AuthorizePayment(1)
    \/ CommitTransaction(1)
    \/ Respond(1)

SpecRequests == InitShop /\ [][NextRequests]_vars

\* repayments in both workers, and orders of lines of quantity 4 at the
\* catalog price in the first
NextRepayments ==
    \/ \E c \in Calls : CreateCreditRepayment(c) \/ Respond(c)
    \/ BeginTransaction(1)
    \/ ResolvePurchaseLineFrom(1, {4}, {0})
    \/ ResolveSaleLineFrom(1, {4}, {0})
    \/ AuthorizePayment(1)
    \/ CommitTransaction(1)

SpecRepayments == Init /\ [][NextRepayments]_vars

\* a request whose lines name a product, a lot, both or neither
BeginReferences(c) ==
    BeginTransactionWith(c, PaymentMethods, ClientAmounts, ItemLists(ReferenceLines))

\* one worker serving create_transaction for such requests
NextReferences ==
    \/ BeginReferences(1)
    \/ ResolveNextPurchaseLine(1)
    \/ ResolveNextSaleLine(1)
    \/ AuthorizePayment(1)
    \/ CommitTransaction(1)
    \/ Respond(1)

SpecReferences == Init /\ [][NextReferences]_vars

\* two workers serving create_transaction, the flush of the header a step of
\* its own; lines at the catalog price
NextIsolation ==
    \E c \in Calls :
        \/ BeginTransaction(c)
        \/ ResolvePurchaseLineFrom(c, LineQuantities, {0})
        \/ ResolveSaleLineFrom(c, LineQuantities, {0})
        \/ AuthorizePayment(c)
        \/ FlushTransaction(c)
        \/ CommitFlushed(c)
        \/ Respond(c)

SpecIsolation == Init /\ [][NextIsolation]_vars

(***************************** properties **********************************)
IsOrder(c) == calls[c].op = "create_transaction"

Done(c) == calls[c].pc = "done"

\* the exceptions no handler catches: the response is 500 Internal Server Error
ServerErrors == {"TypeError", "ArgumentError", "ValidationError"}

\* the errors a line of an order can end its call with
LineErrors == {"MissingReference", "NotFound", "Unavailable", "InsufficientStock",
               "TypeError"}

\* C1: a step of a create_transaction call that does not commit (a step that
\* raises, after any number of lines have decremented stock in the session,
\* as well as every step before the commit) leaves every table as it was:
\* no stock, produce, balance, transaction, item or commission row changes.
C1_AllOrNothing ==
    [][\A c \in Calls :
          (calls'[c] # calls[c] /\ calls'[c].result # "committed") => db' = db]_vars

\* a call has failed at its second line, after its first line passed every
\* check and decremented stock, and the tables are what they were before it
C1_Witness ==
    \E c \in Calls :
        /\ IsOrder(c) /\ Done(c)
        /\ calls[c].result \in {"MissingReference", "NotFound", "InsufficientStock"}
        /\ calls[c].resolved = 1
        /\ products = InitProducts
        /\ transactions = << >>

RECURSIVE SoldInItems(_, _)
\* the quantity of product p in a sequence of TransactionItem rows
SoldInItems(items, p) ==
    IF items = << >> THEN 0
    ELSE (IF Head(items).product_id = p THEN Head(items).quantity ELSE 0)
         + SoldInItems(Tail(items), p)

RECURSIVE Sold(_, _)
\* the quantity of product p in the items of the committed transactions
Sold(txs, p) ==
    IF txs = << >> THEN 0
    ELSE SoldInItems(Head(txs).items, p) + Sold(Tail(txs), p)

\* C2: whatever the interleaving of the create_transaction calls, the
\* quantities of a product in the committed items add up to no more than the
\* stock there was, and the stored stock is the initial stock minus that sum.
C2_NoOversellNoLostUpdate ==
    \A p \in ProductIds :
        /\ Sold(transactions, p) <= InitProducts[p].quantity_in_stock
        /\ products[p].quantity_in_stock =
               InitProducts[p].quantity_in_stock - Sold(transactions, p)

\* a product_purchase paid by credit and submitted by a farmer
FarmerCreditPurchase(c) ==
    /\ IsOrder(c)
    /\ calls[c].ttype = "product_purchase"
    /\ calls[c].method = "credit"
    /\ Role(calls[c].user) = "farmer"

\* the totals of the one-line orders for a quantity in stock at the catalog price
OrderTotals ==
    UNION {{q * products[p].price :
               q \in {x \in LineQuantities : x <= InitProducts[p].quantity_in_stock}} :
           p \in ProductIds}

\* the order totals a finished call can have had: the total of its lines when
\* it read them all, any total when it was turned away before reading one,
\* none when one of its lines failed
TotalsOf(c) ==
    IF calls[c].at = "authorize" THEN OrderTotals
    ELSE IF calls[c].at \in {"payment", "commit"} THEN {calls[c].total}
    ELSE {}

\* credit_limit - current_balance of the account of user u (one account per farmer)
AvailableCredit(u) ==
    LET a == CHOOSE x \in DOMAIN accounts : accounts[x].farmer_id = u
    IN accounts[a].credit_limit - accounts[a].current_balance

HasAccount(u) == \E a \in DOMAIN accounts : accounts[a].farmer_id = u

\* C3: two credit purchases of one farmer, each within the available credit
\* and together above it, end with exactly one committed and the other
\* rejected with CreditLimitExceeded.
C3_ExactlyOneCreditPurchase ==
    \A c1, c2 \in Calls :
        (/\ c1 # c2
         /\ FarmerCreditPurchase(c1) /\ Done(c1)
         /\ FarmerCreditPurchase(c2) /\ Done(c2)
         /\ calls[c1].user = calls[c2].user
         /\ HasAccount(calls[c1].user))
        => \A t1 \in TotalsOf(c1), t2 \in TotalsOf(c2) :
              LET before == InitAccounts[1].credit_limit - InitAccounts[1].current_balance
              IN (t1 <= before /\ t2 <= before /\ t1 + t2 > before)
                 => {calls[c1].result, calls[c2].result}
                       = {"committed", "CreditLimitExceeded"}

\* C4: every CreditAccount holds 0 <= current_balance <= credit_limit in
\* every state that orders and repayments reach.
C4_BalanceWithinLimit ==
    \A a \in DOMAIN accounts :
        /\ 0 <= accounts[a].current_balance
        /\ accounts[a].current_balance <= accounts[a].credit_limit

\* an order has been committed and a salesperson's repayment of 50.00 on the
\* farmer's account has been served
C4_Witness ==
    /\ transactions # << >>
    /\ \E c \in Calls :
          /\ calls[c].op = "create_credit_repayment" /\ Done(c)
          /\ Role(calls[c].user) = "salesperson"
          /\ calls[c].acct = 1 /\ calls[c].total = 50000

\* C5: a farmer's product_purchase on credit whose total is within the
\* available credit of the farmer's account commits (and adds its total to
\* the balance).
C5_FarmerCreditPurchaseCommits ==
    \A c \in Calls :
        (FarmerCreditPurchase(c) /\ Done(c) /\ HasAccount(calls[c].user))
        => \A t \in TotalsOf(c) :
              t <= InitAccounts[1].credit_limit - InitAccounts[1].current_balance
              => /\ calls[c].result = "committed"
                 /\ AvailableCredit(calls[c].user) <=
                       InitAccounts[1].credit_limit - InitAccounts[1].current_balance - t

\* C6: a product_purchase is turned away by the type/role check exactly when
\* the caller is neither a farmer nor a salesperson.
C6_PurchaseRoles ==
    \A c \in Calls :
        (IsOrder(c) /\ Done(c) /\ calls[c].ttype = "product_purchase")
        => ((calls[c].at = "authorize" /\ calls[c].result = "Forbidden")
              <=> Role(calls[c].user) \notin {"farmer", "salesperson"})

\* C7: when an order arrives, a produce_sale passes the type/role check iff
\* the caller is a salesperson and is rejected with Forbidden otherwise; a
\* type that is neither product_purchase nor produce_sale is rejected with
\* InvalidTransactionType whatever the role; a rejection changes no table.
C7_SaleRolesAndTypes ==
    [][\A c \in Calls :
          (calls[c].pc = "idle" /\ calls'[c].op = "create_transaction")
          => LET new == calls'[c]
                 rejected == new.pc = "done" /\ new.at = "authorize"
             IN /\ new.ttype = "produce_sale"
                     => IF Role(new.user) = "salesperson"
                        THEN new.pc = "resolving"
                        ELSE rejected /\ new.result = "Forbidden"
                /\ new.ttype \notin {"product_purchase", "produce_sale"}
                     => rejected /\ new.result = "InvalidTransactionType"
                /\ rejected => db' = db]_vars

\* a produce_sale of a caller who is no salesperson has been rejected with
\* Forbidden, an order of an unknown type has been rejected with
\* InvalidTransactionType, and a salesperson's produce_sale is past the check
C7_Witness ==
    \E c1, c2 \in Calls :
        /\ IsOrder(c1) /\ Done(c1) /\ calls[c1].ttype = "produce_sale"
        /\ calls[c1].result = "Forbidden" /\ Role(calls[c1].user) # "salesperson"
        /\ IsOrder(c2) /\ Done(c2) /\ calls[c2].ttype = "refund"
        /\ calls[c2].result = "InvalidTransactionType"
        /\ products = InitProducts /\ transactions = << >>

\* C8: the amount of every committed transaction is exactly the sum over its
\* items of quantity * unit_price.
C8_AmountIsSumOfItems ==
    \A i \in DOMAIN transactions :
        transactions[i].amount = SumItems(transactions[i].items)

\* a request that writes a Produce row: a listing, an edit, a produce sale
WritesProduce(c) ==
    \/ calls[c].op \in {"create_produce", "update_produce"}
    \/ IsOrder(c) /\ calls[c].ttype = "produce_sale"

C10_OverLimitRejected ==
    \A c \in Calls :
        (FarmerCreditPurchase(c) /\ Done(c) /\ HasAccount(calls[c].user))
        => \A t \in TotalsOf(c) :
              t > InitAccounts[1].credit_limit - InitAccounts[1].current_balance
              => /\ calls[c].result = "CreditLimitExceeded"
                 /\ accounts = InitAccounts

\* C11: a create_credit_repayment of a salesperson on an existing account
\* succeeds iff 0 < amount <= current_balance; on success one CreditRepayment
\* row is appended and the balance goes down by the amount; an amount <= 0
\* fails with InvalidAmount and an amount above the balance with
\* ExceedsBalance, and a failure changes neither the balance nor the rows.
C11_RepaymentContract ==
    [][\A c \in Calls :
          (/\ calls[c].pc = "idle"
           /\ calls'[c].op = "create_credit_repayment"
           /\ Role(calls'[c].user) = "salesperson"
           /\ calls'[c].acct \in DOMAIN accounts)
          => LET a == calls'[c].acct
                 amount == calls'[c].total
                 balance == accounts[a].current_balance
             IN IF 0 < amount /\ amount <= balance
                THEN /\ calls'[c].result = "committed"
                     /\ Len(repayments') = Len(repayments) + 1
                     /\ repayments'[Len(repayments')].amount = amount
                     /\ accounts'[a].current_balance = balance - amount
                ELSE /\ calls'[c].result =
                           IF amount <= 0 THEN "InvalidAmount" ELSE "ExceedsBalance"
                     /\ accounts' = accounts
                     /\ repayments' = repayments]_vars

EndedAtSellableLine(c) ==
    /\ IsOrder(c) /\ Done(c)
    /\ calls[c].ttype = "produce_sale"
    /\ calls[c].at = "resolve"
    /\ calls[c].line.ref \in DOMAIN produce
    /\ produce[calls[c].line.ref].is_available
    /\ 0 < calls[c].line.quantity
    /\ calls[c].line.quantity <= produce[calls[c].line.ref].quantity

\* C13: a produce sale creates a Commission (a sale does not fail at a line
\* that passes every check), whose amount is the transaction's amount times
\* the rate of 5% and whose commission_rate is that rate.
C13_CommissionIsFivePercent ==
    /\ \A i \in DOMAIN transactions :
          \A k \in DOMAIN transactions[i].commission :
              /\ transactions[i].commission[k].commission_rate = COMMISSION_RATE
              /\ 100 * transactions[i].commission[k].amount =
                     COMMISSION_RATE * transactions[i].amount
    /\ \A c \in Calls : ~EndedAtSellableLine(c)

\* C14: an order with a line of quantity <= 0 never commits: every committed
\* item has a quantity > 0 and a line total >= 0, and no order leaves a
\* Product with more stock or a Produce with a larger quantity than before.
C14_OnlyPositiveQuantities ==
    /\ \A i \in DOMAIN transactions :
          \A k \in DOMAIN transactions[i].items :
              /\ transactions[i].items[k].quantity > 0
              /\ transactions[i].items[k].quantity * transactions[i].items[k].unit_price >= 0
    /\ \A p \in ProductIds :
          products[p].quantity_in_stock <= InitProducts[p].quantity_in_stock
    /\ \A r \in DOMAIN produce : produce[r].quantity <= InitProduce[r].quantity

\* the loop of call c has ended at a line in this step
EndsAtLine(c) ==
    /\ calls[c].pc = "resolving"
    /\ calls'[c].pc = "done"
    /\ calls'[c].at = "resolve"

\* C15: no create_transaction step leaves a Product with quantity_in_stock < 0
\* or a Produce with quantity < 0, and a line that names an existing product,
\* or a lot on sale, and asks for more than the quantity there is (as the
\* call's session sees it) ends the call with InsufficientStock and writes
\* nothing.
C15_NeverNegative ==
    [][/\ \A p \in ProductIds : products'[p].quantity_in_stock >= 0
       /\ \A r \in DOMAIN produce' : produce'[r].quantity >= 0
       /\ \A c \in Calls :
             EndsAtLine(c)
             => LET ref == calls'[c].line.ref
                    q == calls'[c].line.quantity
                    over == IF calls[c].ttype = "product_purchase"
                            THEN ref \in ProductIds /\ q > StockSeen(calls[c], ref)
                            ELSE /\ ref \in DOMAIN produce
                                 /\ ProduceSeen(calls[c], ref).is_available
                                 /\ q > ProduceSeen(calls[c], ref).quantity
                IN over => calls'[c].result = "InsufficientStock" /\ db' = db]_vars

\* a purchase has been turned away with InsufficientStock at its second line,
\* which asked for more than its first line had left, and a produce sale at a
\* line that asked for more than the lot holds; the stock is what it was
C15_Witness ==
    \E c1, c2 \in Calls :
        /\ IsOrder(c1) /\ Done(c1) /\ calls[c1].ttype = "product_purchase"
        /\ calls[c1].result = "InsufficientStock" /\ calls[c1].resolved = 1
        /\ calls[c1].line.quantity <= products[calls[c1].line.ref].quantity_in_stock
        /\ IsOrder(c2) /\ Done(c2) /\ calls[c2].ttype = "produce_sale"
        /\ calls[c2].result = "InsufficientStock"
        /\ calls[c2].line.quantity > produce[calls[c2].line.ref].quantity
        /\ products = InitProducts

\* C16: a produce sale of a lot's whole quantity is committed and leaves the
\* lot with quantity 0 and is_available false (it does not end at the line
\* that sells the lot out); a lot of quantity 0 is not on sale; and a
\* produce_sale line on a lot that is not on sale is rejected with
\* Unavailable.
C16_SoldOutIsWithdrawn ==
    /\ \A c \in Calls :
          (EndedAtSellableLine(c)
             /\ calls[c].line.quantity = InitProduce[calls[c].line.ref].quantity)
          => /\ calls[c].result = "committed"
             /\ produce[calls[c].line.ref].quantity = 0
             /\ ~produce[calls[c].line.ref].is_available
    /\ \A r \in DOMAIN produce :
          produce[r].quantity = 0 => ~produce[r].is_available
    /\ \A c \in Calls :
          (/\ IsOrder(c) /\ Done(c)
           /\ calls[c].ttype = "produce_sale" /\ calls[c].at = "resolve"
           /\ calls[c].line.ref \in DOMAIN produce
           /\ ~produce[calls[c].line.ref].is_available)
          => calls[c].result = "Unavailable"

\* the catalog price of the entry a session line names
CatalogPrice(line) ==
    IF line.product_id # NoId THEN products[line.product_id].price
    ELSE produce[line.produce_id].price_per_unit

\* C17: the unit_price stored on each item of an order that commits is the
\* unit_price its request line gave when that is > 0, and the catalog price
\* of the entry (Product.price, Produce.price_per_unit) when it is 0 or
\* negative.
C17_UnitPriceSnapshot ==
    [][\A c \in Calls :
          (IsOrder(c) /\ calls[c].result # "committed"
                      /\ calls'[c].result = "committed")
          => LET row == transactions'[Len(transactions')]
             IN \A k \in DOMAIN row.items :
                   row.items[k].unit_price =
                       IF calls[c].items[k].given > 0
                       THEN calls[c].items[k].given
                       ELSE CatalogPrice(calls[c].items[k])]_vars

\* C18: a committed transaction (its amount, the quantity and unit_price of
\* its items, its commission) is the same after every later step of an
\* order, a credit request or a catalog edit.
C18_CommittedNeverChanges ==
    [][\A i \in DOMAIN transactions :
          /\ i \in DOMAIN transactions'
          /\ transactions'[i] = transactions[i]]_vars

\* an order was committed at the catalog price of 2.00, update_product then
\* set the price to 2.50 and a second order was committed at that price; the
\* first order's item still holds 2.00
C18_Witness ==
    /\ Len(transactions) = 2
    /\ products[1].price = 2500
    /\ transactions[1].items # << >> /\ transactions[1].items[1].unit_price = 2000
    /\ transactions[2].items # << >> /\ transactions[2].items[1].unit_price = 2500

\* C19: a step that changes the current_balance or the credit_limit of an
\* account is the commit of a credit order of the account's farmer, which
\* adds the order's total to the balance, or the recording of a repayment on
\* the account, which takes the amount off the balance; neither changes the
\* limit, and no other request changes either field.
C19_OnlyOrdersAndRepayments ==
    [][\A a \in DOMAIN accounts :
          (accounts'[a].current_balance # accounts[a].current_balance
             \/ accounts'[a].credit_limit # accounts[a].credit_limit)
          => /\ accounts'[a].credit_limit = accounts[a].credit_limit
             /\ \E c \in Calls :
                   /\ calls[c].result # "committed"
                   /\ calls'[c].result = "committed"
                   /\ calls'[c].acct = a
                   /\ \/ /\ calls'[c].op = "create_transaction"
                         /\ calls'[c].method = "credit"
                         /\ accounts'[a].current_balance =
                                accounts[a].current_balance + calls'[c].total
                      \/ /\ calls'[c].op = "create_credit_repayment"
                         /\ accounts'[a].current_balance =
                                accounts[a].current_balance - calls'[c].total]_vars

\* an admin's update_credit_account on the farmer's account has been served,
\* and the account is what it was
C19_Witness ==
    \E c \in Calls :
        /\ calls[c].op = "update_credit_account" /\ Done(c)
        /\ Role(calls[c].user) = "admin"
        /\ calls[c].acct = 1
        /\ accounts = InitAccounts

\* C20: after every step each farmer has at most one CreditAccount; an
\* admin's create_credit_account that names a user who is no farmer is
\* rejected with NotAFarmer, one that names a farmer who has an account is
\* rejected with DuplicateAccount, and neither rejection changes an account.
C20_OneAccountPerFarmer ==
    [][/\ \A u \in Users :
             Cardinality({a \in DOMAIN accounts' : accounts'[a].farmer_id = u}) <= 1
       /\ \A c \in Calls :
             (/\ calls[c].pc = "idle"
              /\ calls'[c].op = "create_credit_account"
              /\ Role(calls'[c].user) = "admin")
             => /\ Role(calls'[c].target) # "farmer"
                     => calls'[c].result = "NotAFarmer" /\ accounts' = accounts
                /\ (Role(calls'[c].target) = "farmer" /\ HasAccount(calls'[c].target))
                     => calls'[c].result = "DuplicateAccount" /\ accounts' = accounts]_vars

\* C21: the tables the other requests read change only in the step that
\* commits an order, and in that step whole: the new Transaction has every
\* item of the order (and its commission if it is a sale), the stock takes the
\* order's decrements; a flushed header, a pending decrement or anything of an
\* order that aborts never reaches them
C21_NoIntermediateEffects ==
    [][db' # db =>
        \E c \in Calls :
            LET call == calls[c]
                row == transactions'[Len(transactions')]
            IN /\ call.pc = "flushed"
               /\ calls'[c].pc = "done" /\ calls'[c].result = "committed"
               /\ Len(transactions') = Len(transactions) + 1
               /\ \A i \in 1..Len(transactions) : transactions'[i] = transactions[i]
               /\ Len(row.items) = Len(call.items)
               /\ \A i \in 1..Len(call.items) :
                     /\ row.items[i].product_id = call.items[i].product_id
                     /\ row.items[i].quantity = call.items[i].quantity
               /\ (call.ttype = "produce_sale") = (row.commission # << >>)
               /\ \A p \in DOMAIN products :
                     products'[p].quantity_in_stock = StockSeen(call, p)]_vars

\* an order has flushed its header and holds its items, the other worker is
\* in its loop with a line resolved, and the tables are as they were
C21_Witness ==
    /\ calls[1].pc = "flushed" /\ calls[1].items # << >>
    /\ calls[2].pc = "resolving" /\ calls[2].resolved > 0
    /\ transactions = << >> /\ products = InitProducts

\* the errors of the credit branch
PaymentErrors == {"Forbidden", "NoCreditAccount", "CreditLimitExceeded"}

\* C22: a create_transaction call goes from the type and role check to the
\* loop over its lines, from the loop to the credit branch, from there to the
\* commit, and ends either committed or with one error: the type and role
\* verdict is given before a line is looked at, a payment error is given only
\* when no line is left and every line of the request has resolved, and the
\* order commits only then too
C22_PhaseOrder ==
    [][\A c \in Calls :
        LET old == calls[c]
            new == calls'[c]
        IN (old # new /\ (IsOrder(c) \/ new.op = "create_transaction")) =>
           /\ old.pc = "idle" =>
                /\ new.resolved = 0 /\ new.items = << >> /\ new.sstock = << >>
                /\ IF AuthorizeType(new.ttype, Role(new.user)) = "ok"
                   THEN new.pc = "resolving"
                   ELSE /\ new.pc = "done" /\ new.at = "authorize"
                        /\ new.result \in {"InvalidTransactionType", "Forbidden"}
           /\ old.pc = "resolving" =>
                /\ new.pc \in {"resolving", "commit", "done"}
                /\ new.pc = "resolving" =>
                     old.todo # << >> /\ new.resolved = old.resolved + 1
                /\ new.pc = "done" => new.at \in {"resolve", "payment", "commit"}
           /\ old.pc = "commit" => new.pc = "done" /\ new.at = "commit"
           /\ old.pc = "done" => new = IdleCall
           /\ (new.pc = "done" /\ new.at = "resolve") =>
                old.todo # << >> /\ new.result \in LineErrors
           /\ (new.pc = "done" /\ new.at = "payment") =>
                /\ new.result \in PaymentErrors
                /\ old.todo = << >> /\ Len(old.items) = old.resolved
           /\ (new.pc = "commit" \/ (new.pc = "done" /\ new.at = "commit")) =>
                old.todo = << >> /\ Len(old.items) = old.resolved
           /\ new.pc = "done" =>
                /\ (new.result = "committed") = (new.at = "commit")
                /\ (new.result = "committed") = (transactions' # transactions)]_vars

\* an admin paying by credit is refused after both lines of the order resolved
C22_Witness ==
    /\ IsOrder(1) /\ Done(1)
    /\ calls[1].at = "payment" /\ calls[1].result = "Forbidden"
    /\ calls[1].resolved = 2

\* the verdict of the checks of one line, for the call as it stands
LineVerdict(call, item) ==
    IF call.ttype = "product_purchase"
    THEN PurchaseLineCheck(call, item.product_id, item.quantity)
    ELSE SaleLineCheck(call, item.produce_id, item.quantity)

\* C23: the loop examines the lines in the order of the request and stops at
\* the first that fails: each step of the loop is about the first line not yet
\* examined; if that line fails the call ends with that line's error, the
\* lines behind it stay unexamined and no table changes; if it passes, the
\* loop goes on to the line behind it
C23_FirstFailingLineWins ==
    [][\A c \in Calls :
        LET old == calls[c]
            new == calls'[c]
            first == Head(old.todo)
            verdict == LineVerdict(old, first)
        IN (old.pc = "resolving" /\ old.todo # << >> /\ new # old) =>
           IF verdict # "ok"
           THEN /\ new.pc = "done" /\ new.at = "resolve" /\ new.result = verdict
                /\ new.todo = old.todo
                /\ new.resolved = old.resolved
                /\ new.resolved + Len(new.todo) = old.resolved + Len(old.todo)
                /\ db' = db
           ELSE \/ /\ new.pc = "resolving" /\ new.resolved = old.resolved + 1
                   /\ new.todo = Tail(old.todo)
                \/ /\ new.pc = "done" /\ new.result = "TypeError"
                   /\ new.todo = old.todo /\ db' = db]_vars

\* an order of two failing lines, an unknown product and then a line without
\* product_id, has ended with the error of the first, the second unexamined
C23_Witness ==
    /\ IsOrder(1) /\ Done(1) /\ calls[1].result = "NotFound"
    /\ calls[1].resolved = 0
    /\ Len(calls[1].todo) = 2
    /\ calls[1].todo[1].product_id = 3
    /\ calls[1].todo[2].product_id = NoId

\* C24: every item of a committed order names one catalog entry, of the kind
\* of the order's type: a purchase item has product_id and no produce_id, a
\* sale item has produce_id and no product_id, whatever else the request line
\* carried; and a line without the id its type needs ends the call with
\* MissingReference, the other id being there or not
C24_ExactlyOneReference ==
    [][/\ \A t \in 1..Len(transactions') :
            \A i \in 1..Len(transactions'[t].items) :
                LET item == transactions'[t].items[i] IN
                IF transactions'[t].transaction_type = "product_purchase"
                THEN item.product_id # NoId /\ item.produce_id = NoId
                ELSE item.produce_id # NoId /\ item.product_id = NoId
       /\ \A c \in Calls :
            LET old == calls[c]
                new == calls'[c]
                needed == IF old.ttype = "product_purchase"
                          THEN Head(old.todo).product_id
                          ELSE Head(old.todo).produce_id
            IN (old.pc = "resolving" /\ old.todo # << >> /\ new # old
                    /\ needed = NoId) =>
               /\ new.pc = "done" /\ new.result = "MissingReference"
               /\ db' = db]_vars

\* a purchase item is committed with its product alone, and a purchase has
\* ended with MissingReference at a line that names a lot and no product
C24_Witness ==
    /\ \E t \in 1..Len(transactions) :
          /\ transactions[t].transaction_type = "product_purchase"
          /\ \E i \in 1..Len(transactions[t].items) :
                /\ transactions[t].items[i].product_id = 1
                /\ transactions[t].items[i].produce_id = NoId
    /\ IsOrder(1) /\ Done(1) /\ calls[1].result = "MissingReference"
    /\ calls[1].ttype = "product_purchase"
    /\ calls[1].todo # << >>
    /\ calls[1].todo[1].product_id = NoId /\ calls[1].todo[1].produce_id = 1

\* C25: a committed produce sale has a Commission exactly when a user of role
\* admin exists, its beneficiary is then an admin, and a produce sale is not
\* ended by an exception of the server: with or without a commission the
\* sale of a lot on offer commits
C25_SaleCommitsCommissionIffAdmin ==
    /\ \A i \in DOMAIN transactions :
          transactions[i].transaction_type = "produce_sale" =>
              /\ (transactions[i].commission # << >>) =
                     (\E u \in Users : Role(u) = "admin")
              /\ \A k \in DOMAIN transactions[i].commission :
                     Role(transactions[i].commission[k].beneficiary_id) = "admin"
    /\ \A c \in Calls :
          (IsOrder(c) /\ Done(c) /\ calls[c].ttype = "produce_sale")
              => calls[c].result \notin ServerErrors

\* C26: for every product, the stock the orders have taken away (the stock at
\* the start minus the stored stock) is the sum of the quantities of the
\* committed items of that product; an order of one line of 4 at the catalog
\* price of 2.00 has amount 8.00, and as the only order leaves 6 of 10
C26_StockConservation ==
    /\ \A p \in DOMAIN products :
          InitProducts[p].quantity_in_stock - products[p].quantity_in_stock
              = Sold(transactions, p)
    /\ \A i \in DOMAIN transactions :
          LET t == transactions[i] IN
          (/\ Len(t.items) = 1
           /\ t.items[1].product_id = 1
           /\ t.items[1].quantity = 4
           /\ t.items[1].unit_price = InitProducts[1].price)
          => /\ t.amount = 8000
             /\ Len(transactions) = 1 => products[1].quantity_in_stock = 6

RECURSIVE CreditOrdered(_, _)
\* the amounts of the committed credit orders of user u, added up
CreditOrdered(txs, u) ==
    IF txs = << >> THEN 0
    ELSE (IF Head(txs).payment_method = "credit" /\ Head(txs).user_id = u
          THEN Head(txs).amount ELSE 0)
         + CreditOrdered(Tail(txs), u)

RECURSIVE Repaid(_, _)
\* the amounts of the CreditRepayment rows of account a, added up
Repaid(rows, a) ==
    IF rows = << >> THEN 0
    ELSE (IF Head(rows).credit_account_id = a THEN Head(rows).amount ELSE 0)
         + Repaid(Tail(rows), a)

\* C27: whatever the interleaving of repayments and orders, the balance of
\* every account is the balance it started with, plus the amounts of its
\* farmer's committed credit orders, minus the amounts of its recorded
\* repayments, and the recorded repayments never add up to more than was owed
C27_BalanceEquation ==
    \A a \in DOMAIN accounts :
        /\ accounts[a].current_balance =
               InitAccounts[a].current_balance
               + CreditOrdered(transactions, accounts[a].farmer_id)
               - Repaid(repayments, a)
        /\ Repaid(repayments, a) <=
               InitAccounts[a].current_balance
               + CreditOrdered(transactions, accounts[a].farmer_id)

\* two repayments of 50.00 by a salesperson on the account owing 90.00 have
\* both been served, and an order has been committed
C27_Witness ==
    /\ \A c \in Calls :
          /\ calls[c].op = "create_credit_repayment" /\ Done(c)
          /\ Role(calls[c].user) = "salesperson"
          /\ calls[c].acct = 1 /\ calls[c].total = 50000
    /\ accounts[1].current_balance = 90000
    /\ transactions # << >>

\* C28: in an order served alone, the lines of one product are checked
\* against the stock less what the earlier lines of the order took: a line
\* is refused with InsufficientStock exactly when it asks for more than that,
\* so the order commits only if, for every product, the quantities of its
\* lines add up to no more than the stock before the call, and the commit
\* takes exactly that sum off the stock
C28_LinesSeeEarlierLines ==
    [][\A c \in Calls :
        LET old == calls[c]
            new == calls'[c]
        IN /\ (old.pc = "resolving" /\ old.ttype = "product_purchase"
                 /\ old.todo # << >> /\ new # old
                 /\ Head(old.todo).product_id \in DOMAIN products) =>
              LET p == Head(old.todo).product_id
                  left == products[p].quantity_in_stock - SoldInItems(old.items, p)
              IN (new.pc = "done" /\ new.result = "InsufficientStock")
                     = (Head(old.todo).quantity > left)
           /\ (old.pc # "done" /\ new.pc = "done" /\ new.result = "committed") =>
              LET row == transactions'[Len(transactions')] IN
              \A p \in DOMAIN products :
                  /\ SoldInItems(row.items, p) <= products[p].quantity_in_stock
                  /\ products'[p].quantity_in_stock =
                         products[p].quantity_in_stock - SoldInItems(row.items, p)]_vars

\* an order of 4 and 4 of the product with 10 in stock is committed and has
\* left 2, and an order of 4 and 4 of the product with 5 in stock has been
\* refused at its second line
C28_Witness ==
    /\ Len(transactions) = 1
    /\ Len(transactions[1].items) = 2
    /\ SoldInItems(transactions[1].items, 1) = 8
    /\ products[1].quantity_in_stock = 2
    /\ IsOrder(1) /\ Done(1) /\ calls[1].result = "InsufficientStock"
    /\ calls[1].resolved = 1
    /\ calls[1].line = [ref |-> 2, quantity |-> 4]
    /\ products[2].quantity_in_stock = 5

\* C29: the Transaction an order commits has the actor as user_id and, as
\* amount, the sum of quantity * unit price over the order's lines at the
\* prices the loop resolved; the amount field of the request has no part in
\* it: with any other amount in the request the same step would have
\* committed the same row, the same stock and the same balances
C29_ClientAmountIgnored ==
    [][\A c \in Calls :
        LET old == calls[c]
            new == calls'[c]
            row == transactions'[Len(transactions')]
        IN (IsOrder(c) /\ old.pc # "done" /\ new.pc = "done"
               /\ new.result = "committed") =>
           /\ row.user_id = old.user
           /\ row.amount = Numeric2(SumItems(old.items))
           /\ Len(row.items) = Len(old.items)
           /\ \A a \in ClientAmounts :
                LET other == [old EXCEPT !.claimed = a] IN
                /\ row = TransactionRow(other)
                /\ \A p \in DOMAIN products :
                      products'[p].quantity_in_stock = StockSeen(other, p)
                /\ accounts' = accounts]_vars

\* an order sent with amount 1.00 is committed with the amount of its lines,
\* 8.00 for 4 units at 2.00
C29_Witness ==
    /\ IsOrder(1) /\ Done(1) /\ calls[1].result = "committed"
    /\ calls[1].claimed = 1000
    /\ transactions[Len(transactions)].amount = 8000
    /\ transactions[Len(transactions)].user_id = calls[1].user

\* C30: a step of create_transaction changes nothing but what the order
\* names: an order not paid by credit leaves every account as it was, a credit
\* order changes no account but the actor's, a purchase leaves every lot as it
\* was, a sale leaves every product as it was, and a product or lot that no
\* item of the order names keeps its row
C30_OnlyWhatTheOrderNames ==
    [][\A c \in Calls :
        LET old == calls[c]
            new == calls'[c]
            row == transactions'[Len(transactions')]
        IN (IsOrder(c) /\ old.pc # "done" /\ new.pc = "done"
               /\ new.result = "committed") =>
           /\ old.method \in {"cash", "mobile_money"} => accounts' = accounts
           /\ \A a \in DOMAIN accounts :
                 accounts'[a] # accounts[a] => accounts[a].farmer_id = old.user
           /\ old.ttype = "product_purchase" => produce' = produce
           /\ old.ttype = "produce_sale" => products' = products
           /\ \A p \in DOMAIN products :
                 (\A i \in 1..Len(row.items) : row.items[i].product_id # p)
                     => products'[p] = products[p]
           /\ \A r \in DOMAIN produce :
                 (\A i \in 1..Len(row.items) : row.items[i].produce_id # r)
                     => produce'[r] = produce[r]
           /\ repayments' = repayments]_vars

\* an order of 4 of the first product paid by mobile money is committed: the
\* first product is down to 6, the second product, the lots and the accounts
\* are as they were
C30_Witness ==
    /\ IsOrder(1) /\ Done(1) /\ calls[1].result = "committed"
    /\ calls[1].method = "mobile_money"
    /\ Len(transactions) = 1
    /\ products[1].quantity_in_stock = 6
    /\ products[2].quantity_in_stock = 5
    /\ produce = InitProduce /\ accounts = InitAccounts
====
